---- MODULE Spec2Model ----
(***************************************************************************)
(* SceneCollection.stack / SceneCollection.mosaic of                       *)
(* descarteslabs/scenes/scenecollection.py: validation, the thread-pool    *)
(* fan-out of the per-item fetches, the assembly of the stacked array and  *)
(* the masking of a mosaic.                                                *)
(***************************************************************************)
EXTENDS Integers, Sequences, FiniteSets, TLC

\* ------------------------------------------------------------------ bounds
MaxLen == 3
MaxWorkers == 2
MaxLenArgs == 2
NPix == 2

\* ------------------------------------------------------- catalog of scenes
\* Scene metadata as the catalog hands it to the collection: an id, the date
\* used as grouping key, and per band a dtype and a nodata sentinel.
Null == [some |-> FALSE]
Some(v) == [some |-> TRUE, v |-> v]

Catalog ==
  <<[id |-> 1, date |-> 1,
     bands |-> [red   |-> [dtype |-> "Byte",   nodata |-> Some(0)],
                green |-> [dtype |-> "Byte",   nodata |-> Null],
                alpha |-> [dtype |-> "UInt16", nodata |-> Null]]],
    [id |-> 2, date |-> 1,
     bands |-> [red   |-> [dtype |-> "UInt16", nodata |-> Some(1)],
                green |-> [dtype |-> "UInt16", nodata |-> Some(2)],
                alpha |-> [dtype |-> "UInt16", nodata |-> Null]]],
    [id |-> 3, date |-> 2,
     bands |-> [red   |-> [dtype |-> "UInt16", nodata |-> Null],
                green |-> [dtype |-> "UInt16", nodata |-> Some(2)],
                alpha |-> [dtype |-> "UInt16", nodata |-> Some(0)]]],
    [id |-> 4, date |-> 2,
     bands |-> [red   |-> [dtype |-> "Byte",   nodata |-> Some(2)],
                green |-> [dtype |-> "Byte",   nodata |-> Null],
                alpha |-> [dtype |-> "Byte",   nodata |-> Null]]]>>

SceneIds == DOMAIN Catalog

BandLists == {<<"red">>, <<"green", "red">>, <<"red", "alpha">>, <<"alpha", "red">>}
MosaicBandLists == BandLists \cup {<<"alpha">>, <<"green", "alpha", "red">>}

\* ------------------------------------------------------------ sequences
Last(s) == s[Len(s)]
AllButLast(s) == SubSeq(s, 1, Len(s) - 1)
Contains(s, x) == \E k \in DOMAIN s : s[k] = x
Index(s, x) == CHOOSE k \in DOMAIN s : s[k] = x /\ \A j \in 1..(k - 1) : s[j] # x

\* All sequences over S of length 0..n without repeated elements.
InjSeqs(S, n) ==
  UNION {{s \in [1..k -> S] : \A a, b \in 1..k : a # b => s[a] # s[b]} : k \in 0..n}

\* ----------------------------------------------------------------- arrays
\* An ndarray in canonical band-major layout: one layer per band, each layer
\* the pixel values; names labels the layers with the band each one holds and
\* axes records the order of the dimensions.
CanonicalAxes == <<"band", "y", "x">>

\* np.moveaxis(arr, 0, bands_axis) on the order of the dimensions.
MoveAxis(axes, k) ==
  LET rest == SubSeq(axes, 2, Len(axes))
      pos  == IF k < 0 THEN k + Len(axes) ELSE k
  IN  SubSeq(rest, 1, pos) \o <<axes[1]>> \o SubSeq(rest, pos + 1, Len(rest))

\* np.zeros_like(arr, dtype=bool)
ZerosLike(data) == [b \in DOMAIN data |-> [p \in DOMAIN data[b] |-> FALSE]]

\* ------------------------------------------------------ the raster service
\* The remote rasterization: the composite of the inputs shows the scene that
\* comes last, one layer per requested band, in the order requested.
PixelValue(id, band, p) ==
  LET bandNo == CASE band = "alpha" -> 0 [] band = "red" -> 1 [] OTHER -> 2
  IN  ((IF p % 2 = 1 THEN id ELSE id \div 3) + bandNo + p) % 3

ServiceLayer(inputs, band) == [p \in 1..NPix |-> PixelValue(Last(inputs), band, p)]

\* The (array, raster_info) pair of a 200 response; order="gdal" gives a 2D
\* array when a single band is requested.
ServiceResponse(req) ==
  [ndim  |-> IF Len(req.bands) = 1 THEN 2 ELSE 3,
   names |-> req.bands,
   data  |-> [b \in DOMAIN req.bands |-> ServiceLayer(req.inputs, req.bands[b])],
   info  |-> [inputs |-> req.inputs, bands |-> req.bands]]

Outcomes == {"ok", "NotFoundError", "BadRequestError", "RuntimeError"}

\* The outcomes drawn for the fetches of a stack.
TaskOutcomes == {"ok", "NotFoundError"}

\* ------------------------------------------------------------------ Scene
DtypeRank(t) == IF t = "Byte" THEN 1 ELSE 2

\* Scene._common_data_type_of_bands: the smallest dtype holding every band.
common_data_type_of_bands(id, bandlist) ==
  LET types == {Catalog[id].bands[bandlist[k]].dtype : k \in DOMAIN bandlist}
  IN  CHOOSE t \in types : \A u \in types : DtypeRank(u) <= DtypeRank(t)

\* ------------------------------------------------- SceneCollection helpers
\* SceneCollection._common_data_type: every scene's dtype equals the first's.
DataTypesAgree(coll, bandlist) ==
  \A k \in DOMAIN coll :
    common_data_type_of_bands(coll[k], bandlist) = common_data_type_of_bands(coll[1], bandlist)

common_data_type(coll, bandlist) == common_data_type_of_bands(coll[1], bandlist)

\* Collection.groupby on the date: the groups in key order, each group in
\* collection order; stack keeps a group of one as the scene itself.
Filter(coll, d) ==
  LET F[k \in 0..Len(coll)] ==
        IF k = 0 THEN <<>>
        ELSE IF Catalog[coll[k]].date = d THEN Append(F[k - 1], coll[k]) ELSE F[k - 1]
  IN  F[Len(coll)]

Dates(coll) == {Catalog[coll[k]].date : k \in DOMAIN coll}

groupby(coll) ==
  LET G[n \in 0..Cardinality(Dates(coll))] ==
        IF n = 0 THEN <<>>
        ELSE LET d == CHOOSE x \in Dates(coll) :
                        Cardinality({y \in Dates(coll) : y < x}) = n - 1
             IN  Append(G[n - 1], Filter(coll, d))
  IN  G[Cardinality(Dates(coll))]

\* ------------------------------------------------- SceneCollection.mosaic
Failure(kind, attached) == [kind |-> kind, attached |-> attached]
NoError == Failure("none", Null)

\* drop_alpha: alpha is fetched for the mask only and removed again.
drop_alpha(bands, mask_alpha) == mask_alpha /\ ~Contains(bands, "alpha")

\* The band list sent to the service (bands.append("alpha")).
MosaicRequestBands(bands, mask_alpha) ==
  IF drop_alpha(bands, mask_alpha) THEN Append(bands, "alpha") ELSE bands

\* The checks of mosaic ahead of the service call, in the code's order.
MosaicError(coll, bands, mask_alpha, bands_axis) ==
  IF Len(coll) = 0 THEN "EmptyCollection"
  ELSE IF ~(-3 < bands_axis /\ bands_axis < 3) THEN "InvalidAxis"
  ELSE IF mask_alpha /\ Contains(bands, "alpha") /\ Index(bands, "alpha") # Len(bands)
       THEN "AlphaOrder"
  ELSE IF ~DataTypesAgree(coll, MosaicRequestBands(bands, mask_alpha)) THEN "DataType"
  ELSE "none"

full_raster_args_last(coll, bands, mask_alpha) ==
  [inputs    |-> <<Last(coll)>>,
   order     |-> "gdal",
   bands     |-> MosaicRequestBands(bands, mask_alpha),
   data_type |-> common_data_type(coll, MosaicRequestBands(bands, mask_alpha))]
full_raster_args(coll, bands, mask_alpha) ==
  [inputs    |-> coll,
   order     |-> "gdal",
   bands     |-> MosaicRequestBands(bands, mask_alpha),
   data_type |-> common_data_type(coll, MosaicRequestBands(bands, mask_alpha))]

\* What mosaic raises when the raster client call fails.
MosaicFailureBare(outcome, req) == Failure(outcome, Null)
MosaicFailure(outcome, req) ==
  CASE outcome = "NotFoundError"   -> Failure("NotFoundError", Some([inputs |-> req.inputs]))
    [] outcome = "BadRequestError" -> Failure("BadRequestError", Some(req))
    [] OTHER                       -> Failure(outcome, Null)

\* The nodata values of a band over all scenes of the collection, None left out.
band_nodata_first(coll, bandname) ==
  {Catalog[coll[k]].bands[bandname].nodata.v :
     k \in {j \in {1} : Catalog[coll[j]].bands[bandname].nodata.some}}
band_nodata_values(coll, bandname) ==
  {Catalog[coll[k]].bands[bandname].nodata.v :
     k \in {j \in DOMAIN coll : Catalog[coll[j]].bands[bandname].nodata.some}}

NodataMask(coll, bands, data) ==
  [b \in DOMAIN data |->
     [p \in DOMAIN data[b] |-> data[b][p] \in band_nodata_values(coll, bands[b])]]

\* mask |= alpha == 0, broadcast over the bands.
AlphaMask(data, alpha) ==
  [b \in DOMAIN data |-> [p \in DOMAIN data[b] |-> alpha[p] = 0]]

MaskOr(m1, m2) == [b \in DOMAIN m1 |-> [p \in DOMAIN m1[b] |-> m1[b][p] \/ m2[b][p]]]

\* arr[:-1] when the alpha band was added for the mask.
KeptFirstDropped(layers, bands, mask_alpha) ==
  IF drop_alpha(bands, mask_alpha) THEN SubSeq(layers, 2, Len(layers)) ELSE layers
KeptLayers(layers, bands, mask_alpha) ==
  IF drop_alpha(bands, mask_alpha) THEN AllButLast(layers) ELSE layers

MosaicMask(coll, bands, mask_nodata, mask_alpha, resp) ==
  LET data  == KeptLayers(resp.data, bands, mask_alpha)
      zeros == ZerosLike(data)
      m1    == IF mask_nodata THEN MaskOr(zeros, NodataMask(coll, bands, data)) ELSE zeros
  IN  IF mask_alpha THEN MaskOr(m1, AlphaMask(data, Last(resp.data))) ELSE m1

MosaicAxes(bands_axis) ==
  IF bands_axis # 0 THEN MoveAxis(CanonicalAxes, bands_axis) ELSE CanonicalAxes

\* if mask_nodata or mask_alpha: the array comes back masked.
MasksBoth(mask_nodata, mask_alpha) == mask_nodata /\ mask_alpha
Masks(mask_nodata, mask_alpha) == mask_nodata \/ mask_alpha

\* The value mosaic returns on a 200 response.
MosaicReturn(coll, bands, mask_nodata, mask_alpha, bands_axis, raster_info, resp) ==
  [masked |-> Masks(mask_nodata, mask_alpha),
   ndim   |-> 3,
   names  |-> KeptLayers(resp.names, bands, mask_alpha),
   data   |-> KeptLayers(resp.data, bands, mask_alpha),
   mask   |-> IF Masks(mask_nodata, mask_alpha)
              THEN MosaicMask(coll, bands, mask_nodata, mask_alpha, resp) ELSE <<>>,
   axes   |-> MosaicAxes(bands_axis),
   info   |-> IF raster_info THEN Some(resp.info) ELSE Null]

\* ---------------------------------------------------------- Scene.ndarray
\* A scene's own rasterization is the mosaic of that scene alone.
SceneNdarrayError(id, bands, mask_alpha, bands_axis) ==
  MosaicError(<<id>>, bands, mask_alpha, bands_axis)

SceneNdarrayArgs(id, bands, mask_alpha) == full_raster_args(<<id>>, bands, mask_alpha)

SceneNdarrayFailure(outcome, req) == MosaicFailure(outcome, req)

SceneNdarrayReturn(id, bands, mask_nodata, mask_alpha, bands_axis, raster_info, resp) ==
  MosaicReturn(<<id>>, bands, mask_nodata, mask_alpha, bands_axis, raster_info, resp)

\* -------------------------------------------------- SceneCollection.stack
\* scenes: the items of the stack, each the ids it rasterizes.
StackItems(coll, flatten) ==
  IF flatten THEN groupby(coll) ELSE [k \in DOMAIN coll |-> <<coll[k]>>]

\* isinstance(scene_or_scenecollection, self.__class__)
IsCollection(item) == Len(item) > 1

\* kwargs['bands_axis']: the bands axis of each component call.
ItemAxis(bands_axis) == IF bands_axis > 0 THEN bands_axis - 1 ELSE bands_axis

\* The band list of the pre-check: alpha appended, and popped afterwards.
PreCheckAsGiven(bands, mask_nodata, mask_alpha) == bands
PreCheckBands(bands, mask_nodata, mask_alpha) ==
  IF (mask_nodata \/ mask_alpha) /\ ~Contains(bands, "alpha")
  THEN Append(bands, "alpha") ELSE bands

\* The checks of stack ahead of the dispatch, in the code's order.
StackErrorAxisUnchecked(coll, bands, mask_nodata, mask_alpha, bands_axis) ==
  IF Len(coll) = 0 THEN "EmptyCollection"
  ELSE IF ~DataTypesAgree(coll, PreCheckBands(bands, mask_nodata, mask_alpha)) THEN "DataType"
  ELSE "none"
StackError(coll, bands, mask_nodata, mask_alpha, bands_axis) ==
  IF Len(coll) = 0 THEN "EmptyCollection"
  ELSE IF bands_axis = 0 \/ bands_axis = -4 THEN "UnsupportedAxis"
  ELSE IF ~DataTypesAgree(coll, PreCheckBands(bands, mask_nodata, mask_alpha)) THEN "DataType"
  ELSE "none"

\* data_loader: the call an item's task makes, by the item's type.
LoaderError(item, a) ==
  IF IsCollection(item)
  THEN MosaicError(item, a.bands, a.mask_alpha, ItemAxis(a.bands_axis))
  ELSE SceneNdarrayError(item[1], a.bands, a.mask_alpha, ItemAxis(a.bands_axis))

LoaderArgs(item, a) ==
  IF IsCollection(item)
  THEN full_raster_args(item, a.bands, a.mask_alpha)
  ELSE SceneNdarrayArgs(item[1], a.bands, a.mask_alpha)

LoaderFailure(item, outcome, req) ==
  IF IsCollection(item) THEN MosaicFailure(outcome, req)
  ELSE SceneNdarrayFailure(outcome, req)

LoaderReturn(item, a, resp) ==
  IF IsCollection(item)
  THEN MosaicReturn(item, a.bands, a.mask_nodata, a.mask_alpha,
                    ItemAxis(a.bands_axis), a.raster_info, resp)
  ELSE SceneNdarrayReturn(item[1], a.bands, a.mask_nodata, a.mask_alpha,
                          ItemAxis(a.bands_axis), a.raster_info, resp)

\* ------------------------------------------------------------------ state
VARIABLES
  self,          \* the SceneCollection: the ids of its scenes, in order
  args,          \* the arguments of the call
  pc,            \* where the calling thread is
  tasks,         \* per item: its fetch, the request it made, the service's answer and its outcome
  threads,       \* worker threads the executor has created
  yielded,       \* the items threaded_ndarrays has yielded so far, in order
  full_stack,    \* the output buffer, None until the first result
  mask,          \* the mask buffer, None unless the first result is masked
  raster_infos,  \* the raster-info list, when raster_info is requested
  writes,        \* per slot, the number of results written to it
  result,        \* the value returned to the caller
  error          \* the failure raised to the caller

vars == <<self, args, pc, tasks, threads, yielded, full_stack, mask, raster_infos,
          writes, result, error>>

\* max_workers=None: five workers per processor.
DefaultWorkers == 5

PoolSizeDefault == DefaultWorkers
PoolSize == IF args.max_workers.some THEN args.max_workers.v ELSE DefaultWorkers

\* The collections and the calls a specification starts from.
Collections(n) == InjSeqs(SceneIds, n)

BandsAxes == -4..4

Serial == [futures |-> FALSE, max_workers |-> Null]
Pool(w) == [futures |-> TRUE, max_workers |-> w]
PoolModes == {Pool(Some(w)) : w \in 1..MaxWorkers} \cup {Pool(Null)}

MosaicCalls(bandLists, axes) ==
  [op : {"mosaic"}, bands : bandLists, mask_nodata : BOOLEAN, mask_alpha : BOOLEAN,
   bands_axis : axes, raster_info : BOOLEAN, flatten : {FALSE},
   max_workers : {Null}, futures : {TRUE}]

AllFlags == [mask_nodata : BOOLEAN, mask_alpha : BOOLEAN]

StackCalls(bandLists, flags, axes, modes) ==
  UNION {[op : {"stack"}, bands : bandLists, mask_nodata : {f.mask_nodata},
          mask_alpha : {f.mask_alpha}, bands_axis : axes, raster_info : BOOLEAN,
          flatten : BOOLEAN, max_workers : {m.max_workers}, futures : {m.futures}]
         : m \in modes, f \in flags}

scenes == StackItems(self, args.flatten)

NewTask == [state |-> "new", calls |-> 0, request |-> Null, outcome |-> "none",
            result |-> Null, error |-> NoError]

InitWith(collections, calls) ==
  /\ self \in collections
  /\ args \in calls
  /\ pc = "idle"
  /\ tasks = <<>>
  /\ threads = 0
  /\ yielded = <<>>
  /\ full_stack = Null
  /\ mask = Null
  /\ raster_infos = Null
  /\ writes = <<>>
  /\ result = Null
  /\ error = NoError

Finished(t) == t.state \in {"done", "failed"}

\* ---------------------------------------------------------------- mosaic
\* mosaic up to the raster client call: the checks, then the one request.
MosaicCall ==
  /\ pc = "idle"
  /\ args.op = "mosaic"
  /\ LET e == MosaicError(self, args.bands, args.mask_alpha, args.bands_axis)
     IN  IF e # "none"
         THEN /\ pc' = "raised"
              /\ error' = Failure(e, Null)
              /\ tasks' = tasks
         ELSE /\ pc' = "mosaic"
              /\ error' = error
              /\ tasks' = <<[NewTask EXCEPT
                               !.state = "running", !.calls = 1,
                               !.request = Some(full_raster_args(self, args.bands,
                                                                 args.mask_alpha))]>>
  /\ UNCHANGED <<self, args, threads, yielded, full_stack, mask, raster_infos,
                 writes, result>>

\* The raster client answers: mosaic masks and returns, or raises.
MosaicRespond(outcome) ==
  /\ pc = "mosaic"
  /\ IF outcome = "ok"
     THEN /\ pc' = "returned"
          /\ result' = Some(MosaicReturn(self, args.bands, args.mask_nodata,
                                         args.mask_alpha, args.bands_axis,
                                         args.raster_info,
                                         ServiceResponse(tasks[1].request.v)))
          /\ error' = error
          /\ tasks' = [tasks EXCEPT ![1].state = "done", ![1].outcome = outcome]
     ELSE /\ pc' = "raised"
          /\ error' = MosaicFailure(outcome, tasks[1].request.v)
          /\ result' = result
          /\ tasks' = [tasks EXCEPT ![1].state = "failed", ![1].outcome = outcome,
                                     ![1].error = error']
  /\ UNCHANGED <<self, args, threads, yielded, full_stack, mask, raster_infos, writes>>

\* ----------------------------------------------------------------- stack
\* stack up to threaded_ndarrays: the checks, the items, the pre-check.
StackCall ==
  /\ pc = "idle"
  /\ args.op = "stack"
  /\ LET e == StackError(self, args.bands, args.mask_nodata, args.mask_alpha,
                         args.bands_axis)
     IN  IF e # "none"
         THEN /\ pc' = "raised"
              /\ error' = Failure(e, Null)
              /\ UNCHANGED <<tasks, raster_infos, writes>>
         ELSE /\ pc' = IF args.futures THEN "submit" ELSE "serial"
              /\ error' = error
              /\ tasks' = [i \in DOMAIN scenes |-> NewTask]
              /\ writes' = [i \in DOMAIN scenes |-> 0]
              /\ raster_infos' = IF args.raster_info
                                 THEN Some([i \in DOMAIN scenes |-> Null])
                                 ELSE Null
  /\ UNCHANGED <<self, args, threads, yielded, full_stack, mask, result>>

\* executor.submit of the next item, in enumerate order; the executor starts
\* a worker thread while it has fewer than max_workers.
Submit ==
  /\ pc = "submit"
  /\ LET i == Cardinality({k \in DOMAIN tasks : tasks[k].state # "new"}) + 1
     IN  /\ tasks' = [tasks EXCEPT ![i].state = "queued"]
         /\ pc' = IF i = Len(tasks) THEN "collect" ELSE "submit"
  /\ threads' = IF threads < PoolSize THEN threads + 1 ELSE threads
  /\ UNCHANGED <<self, args, yielded, full_stack, mask, raster_infos, writes,
                 result, error>>

Running == {k \in DOMAIN tasks : tasks[k].state = "running"}
Queued == {k \in DOMAIN tasks : tasks[k].state = "queued"}

\* Who may run item i's loader now: an idle worker taking the oldest queued
\* work item, or, without concurrent.futures, the caller at its turn.
MayStart(i) ==
  IF args.futures
  THEN /\ pc \in {"submit", "collect", "shutdown"}
       /\ i \in Queued
       /\ \A k \in Queued : i <= k
       /\ Cardinality(Running) < threads
  ELSE /\ pc = "serial"
       /\ tasks[i].state = "new"
       /\ i = Len(yielded) + 1

\* The loader runs up to its raster client call: the component's own checks,
\* then the request.
TaskStart(i) ==
  /\ args.op = "stack"
  /\ MayStart(i)
  /\ LET e == LoaderError(scenes[i], args)
     IN  tasks' = IF e # "none"
                  THEN [tasks EXCEPT ![i].state = "failed",
                                     ![i].error = Failure(e, Null)]
                  ELSE [tasks EXCEPT ![i].state = "running",
                                     ![i].calls = @ + 1,
                                     ![i].request = Some(LoaderArgs(scenes[i], args))]
  /\ UNCHANGED <<self, args, pc, threads, yielded, full_stack, mask, raster_infos,
                 writes, result, error>>

\* The raster client answers item i's request: the loader returns or raises.
TaskRespond(i, outcome) ==
  /\ args.op = "stack"
  /\ tasks[i].state = "running"
  /\ tasks' = IF outcome = "ok"
              THEN [tasks EXCEPT
                      ![i].state = "done",
                      ![i].outcome = outcome,
                      ![i].result = Some(LoaderReturn(scenes[i], args,
                                                      ServiceResponse(tasks[i].request.v)))]
              ELSE [tasks EXCEPT
                      ![i].state = "failed",
                      ![i].outcome = outcome,
                      ![i].error = LoaderFailure(scenes[i], outcome, tasks[i].request.v)]
  /\ UNCHANGED <<self, args, pc, threads, yielded, full_stack, mask, raster_infos,
                 writes, result, error>>

\* The slot a yielded result goes to: the index it was submitted under.
SlotByCompletion(i) == Len(yielded) + 1
SlotOf(i) == i

\* The entry of raster_infos a yielded result's raster_meta goes to.
InfoAppended(i) == Len(yielded) + 1
InfoSlotOf(i) == i

\* np.empty(stack_shape): nothing written yet.
Empty(n) == [k \in 1..n |-> Null]

\* if full_stack is None: ... if isinstance(arr, np.ma.MaskedArray): the mask
\* buffer is allocated with the output buffer, when the first result is masked.
AllocatesMaskForFirstItem(i, first, arr) == i = 1 /\ arr.masked
AllocatesMask(i, first, arr) == first /\ arr.masked

\* Where the caller goes when an exception leaves threaded_ndarrays: out of
\* the with block of the executor, or straight to the caller of stack.
AfterFailure == IF args.futures THEN "shutdown" ELSE "raised"

\* threaded_ndarrays yields (i, result) of a finished item and the loop body
\* of stack stores it; a failed item's exception leaves the generator.
Collect(i) ==
  /\ pc \in {"collect", "serial"}
  /\ i \in DOMAIN tasks
  /\ Finished(tasks[i])
  /\ ~Contains(yielded, i)
  /\ yielded' = Append(yielded, i)
  /\ IF tasks[i].state = "failed"
     THEN /\ pc' = AfterFailure
          /\ error' = tasks[i].error
          /\ UNCHANGED <<full_stack, mask, raster_infos, writes>>
     ELSE LET arr   == tasks[i].result.v
              n     == Len(tasks)
              slot  == SlotOf(i)
              first == ~full_stack.some
              buf   == IF first THEN [axes |-> <<"scene">> \o arr.axes, slots |-> Empty(n)]
                       ELSE full_stack.v
              mbuf  == IF AllocatesMask(i, first, arr) THEN Some(Empty(n)) ELSE mask
          IN  /\ raster_infos' = IF args.raster_info
                                 THEN Some([raster_infos.v EXCEPT ![InfoSlotOf(i)] = arr.info])
                                 ELSE raster_infos
              /\ full_stack' = Some([buf EXCEPT !.slots[slot] =
                                       Some([names |-> arr.names, data |-> arr.data])])
              /\ writes' = [writes EXCEPT ![slot] = @ + 1]
              /\ IF arr.masked /\ ~mbuf.some
                 THEN /\ mask' = mbuf
                      /\ pc' = AfterFailure
                      /\ error' = Failure("TypeError", Null)
                 ELSE /\ mask' = IF arr.masked
                                 THEN Some([mbuf.v EXCEPT ![slot] = Some(arr.mask)])
                                 ELSE mbuf
                      /\ pc' = pc
                      /\ error' = error
  /\ UNCHANGED <<self, args, tasks, threads, result>>

\* The generator is exhausted: the stacked array goes back to the caller.
Return ==
  /\ pc \in {"collect", "serial"}
  /\ Len(yielded) = Len(tasks)
  /\ pc' = "returned"
  /\ result' = Some([masked |-> mask.some,
                     axes   |-> full_stack.v.axes,
                     data   |-> full_stack.v.slots,
                     mask   |-> IF mask.some THEN mask.v ELSE <<>>,
                     infos  |-> raster_infos])
  /\ UNCHANGED <<self, args, tasks, threads, yielded, full_stack, mask, raster_infos,
                 writes, error>>

\* ThreadPoolExecutor.__exit__ is shutdown(wait=True): it returns when every
\* submitted work item has run.
PoolShutDownNoWait == TRUE
PoolShutDown == \A k \in DOMAIN tasks : Finished(tasks[k])

\* The exception leaves the with block and reaches the caller of stack.
Raise ==
  /\ pc = "shutdown"
  /\ PoolShutDown
  /\ pc' = "raised"
  /\ UNCHANGED <<self, args, tasks, threads, yielded, full_stack, mask, raster_infos,
                 writes, result, error>>

NextMosaic ==
  \/ MosaicCall
  \/ \E o \in Outcomes : MosaicRespond(o)

NextStack ==
  \/ StackCall
  \/ Submit
  \/ \E i \in DOMAIN tasks : TaskStart(i)
  \/ \E i \in DOMAIN tasks, o \in TaskOutcomes : TaskRespond(i, o)
  \/ \E i \in DOMAIN tasks : Collect(i)
  \/ Return
  \/ Raise

Next == NextMosaic \/ NextStack

\* Every argument combination of both operations, on collections of up to
\* MaxLenArgs scenes, serially and through a pool.
Init ==
  InitWith(Collections(MaxLenArgs),
           MosaicCalls(BandLists, BandsAxes)
             \cup StackCalls(BandLists, AllFlags, BandsAxes,
                                {Serial, Pool(Some(MaxWorkers))}))

Spec == Init /\ [][Next]_vars

\* stack on collections of up to MaxLen scenes, under every pool size and
\* serially, for one band list, masked and unmasked.
InitStack ==
  InitWith(Collections(MaxLen),
           StackCalls({<<"red">>}, {f \in AllFlags : f.mask_nodata = f.mask_alpha}, {1},
                      PoolModes \cup {Serial}))

SpecStack == InitStack /\ [][NextStack]_vars

\* mosaic on collections of up to MaxLen scenes, for every argument combination.
InitMosaic ==
  InitWith(Collections(MaxLen), MosaicCalls(MosaicBandLists, BandsAxes))

SpecMosaic == InitMosaic /\ [][NextMosaic]_vars

\* ---------------------------------------------- services/raster.py: Raster
\* Raster.ndarray of descarteslabs/services/raster.py: one POST to the
\* /featurearray endpoint, then the decoded array or a RuntimeError.
StatusCodes == {200, 400, 404, 500}

RasterOrders == {"image", "gdal", "other"}

RasterCalls ==
  [op : {"ndarray"}, bands : BandLists, data_type : {"Byte", "UInt16"},
   order : RasterOrders]

\* params: the JSON body of the POST.
RasterParams(inputs, a) == [keys |-> inputs, bands |-> a.bands, ot |-> a.data_type]

\* if r.status_code != 200: raise RuntimeError("%s: %s" % (r.status_code, r.text))
RasterError(status) == Failure("RuntimeError", Some([status_code |-> status]))

\* What Raster.ndarray returns on a 200 response: the FeatureArray viewed as
\* an ndarray, transposed for order='image'; None for any other order.
RasterReturn(order, params) ==
  LET layers == [b \in DOMAIN params.bands |-> ServiceLayer(params.keys, params.bands[b])]
  IN  CASE order = "image" -> [type |-> "ndarray", axes |-> <<"y", "x", "band">>,
                               data |-> layers]
        [] order = "gdal"  -> [type |-> "ndarray", axes |-> CanonicalAxes, data |-> layers]
        [] OTHER           -> [type |-> "None", axes |-> <<>>, data |-> <<>>]

\* Raster.ndarray up to self.session.post.
RasterPost ==
  /\ pc = "idle"
  /\ args.op = "ndarray"
  /\ pc' = "posted"
  /\ tasks' = <<[NewTask EXCEPT !.state = "running", !.calls = 1,
                                !.request = Some(RasterParams(self, args))]>>
  /\ UNCHANGED <<self, args, threads, yielded, full_stack, mask, raster_infos,
                 writes, result, error>>

\* The response arrives: Raster.ndarray raises or returns.
RasterRespond(status) ==
  /\ pc = "posted"
  /\ IF status # 200
     THEN /\ pc' = "raised"
          /\ error' = RasterError(status)
          /\ result' = result
          /\ tasks' = [tasks EXCEPT ![1].state = "failed", ![1].outcome = status,
                                     ![1].error = error']
     ELSE /\ pc' = "returned"
          /\ result' = Some(RasterReturn(args.order, tasks[1].request.v))
          /\ error' = error
          /\ tasks' = [tasks EXCEPT ![1].state = "done", ![1].outcome = status]
  /\ UNCHANGED <<self, args, threads, yielded, full_stack, mask, raster_infos, writes>>

NextRaster ==
  \/ RasterPost
  \/ \E status \in StatusCodes : RasterRespond(status)

\* Raster.ndarray on the ids of up to MaxLen scenes, for every order.
InitRaster ==
  InitWith({c \in Collections(MaxLen) : Len(c) > 0}, RasterCalls)

SpecRaster == InitRaster /\ [][NextRaster]_vars

\* ================================================================ claims
\* What the claims compare the program's state with.
Range(s) == {s[k] : k \in DOMAIN s}

\* The i-th item of the input sequence: collection order, or group order.
ExpectedItem(i) == IF args.flatten THEN groupby(self)[i] ELSE <<self[i]>>

\* What the service holds for an item, for the bands the caller asked for.
ExpectedLayers(item) ==
  [b \in DOMAIN args.bands |-> ServiceLayer(item, args.bands[b])]

Stored(i) == Contains(yielded, i) /\ tasks[i].state = "done"

\* C1: in stack, whatever the completion order, slot i of the output buffer
\* (and entry i of the raster-info list) holds the result of the i-th item of
\* the input sequence and nothing else; a slot is written once, when its own
\* item is yielded, and when stack returns every slot has been written
\* exactly once.
C1_SlotHoldsOwnItem ==
  args.op = "stack" =>
    /\ \A i \in DOMAIN writes :
         /\ writes[i] = IF Stored(i) THEN 1 ELSE 0
         /\ full_stack.some =>
              /\ full_stack.v.slots[i].some = Stored(i)
              /\ Stored(i) => full_stack.v.slots[i].v.data = ExpectedLayers(ExpectedItem(i))
         /\ args.raster_info =>
              /\ raster_infos.v[i].some = Stored(i)
              /\ Stored(i) => raster_infos.v[i].v.inputs = ExpectedItem(i)
    /\ pc = "returned" =>
         /\ Len(result.v.data) = Len(StackItems(self, args.flatten))
         /\ \A i \in DOMAIN result.v.data :
              /\ writes[i] = 1
              /\ result.v.data[i].v.data = ExpectedLayers(ExpectedItem(i))
              /\ args.raster_info => result.v.infos.v[i].v.inputs = ExpectedItem(i)

\* C1 witness: a pool of two workers returned the stack of three items whose
\* results arrived last item first.
C1_Witness ==
  /\ pc = "returned"
  /\ args.futures
  /\ args.raster_info
  /\ yielded = <<3, 1, 2>>
  /\ \A i \in 1..3 : writes[i] = 1

\* The output of fetching the items one after the other, in item order.
ItemOutput(i) ==
  LoaderReturn(scenes[i], args, ServiceResponse(LoaderArgs(scenes[i], args)))

SequentialStack ==
  [masked |-> ItemOutput(1).masked,
   axes   |-> <<"scene">> \o ItemOutput(1).axes,
   data   |-> [i \in DOMAIN scenes |->
                 Some([names |-> ItemOutput(i).names, data |-> ItemOutput(i).data])],
   mask   |-> IF ItemOutput(1).masked
              THEN [i \in DOMAIN scenes |-> Some(ItemOutput(i).mask)] ELSE <<>>,
   infos  |-> IF args.raster_info
              THEN Some([i \in DOMAIN scenes |-> ItemOutput(i).info]) ELSE Null]

\* C2: for the same scenes, bands, context and service data, stack returns
\* the output of the strictly sequential fetch (layers, mask and raster-info
\* list at the same positions) whether it fetched serially or through the
\* pool, under any completion order.
C2_PoolEqualsSerial ==
  (args.op = "stack" /\ pc = "returned") => result.v = SequentialStack

\* C2 witness: a masked stack with raster info returned by the pool after the
\* second item's result arrived before the first's.
C2_Witness ==
  /\ pc = "returned"
  /\ args.futures
  /\ args.raster_info
  /\ result.v.masked
  /\ Len(yielded) = 3
  /\ yielded[1] = 2

\* C6 as stated: once a failed fetch has been seen, stack is never held back
\* by the fetches of the other items, and it returns no array.
C6_RaisesWithoutWaiting ==
  /\ pc = "shutdown" => ENABLED Raise
  /\ error.kind # "none" => ~result.some

\* C6 amended: a failed fetch makes a concurrent stack raise that failure and
\* never return an array, but the failure reaches the caller only after the
\* executor has shut down, that is after every submitted fetch has run to
\* its end.
C6_RaisesAfterPoolDrained ==
  (args.op = "stack" /\ error.kind \in Outcomes) =>
    /\ ~result.some
    /\ pc \in {"shutdown", "raised"}
    /\ \E i \in Range(yielded) : tasks[i].state = "failed" /\ error = tasks[i].error
    /\ (pc = "raised" /\ args.futures) => \A k \in DOMAIN tasks : Finished(tasks[k])

\* C6 witness: the failure of the first item has reached the caller of a
\* concurrent stack, and by then the other two fetches have run and their
\* results are dropped.
C6_Witness ==
  /\ pc = "raised"
  /\ args.futures
  /\ yielded = <<1>>
  /\ tasks[1].state = "failed"
  /\ Len(tasks) = 3
  /\ tasks[2].state = "done"
  /\ tasks[3].state = "done"
  /\ ~result.some

NoNetworkCall == \A i \in DOMAIN tasks : tasks[i].calls = 0
NothingSubmitted == threads = 0 /\ \A i \in DOMAIN tasks : tasks[i].state = "new"
AlphaRequested == Contains(args.bands, "alpha")

\* The band list whose dtypes the call compares between the scenes: the
\* requested bands, with the alpha band the call adds for the mask.
CheckedBands ==
  IF ~AlphaRequested
     /\ (args.mask_alpha \/ (args.op = "stack" /\ args.mask_nodata))
  THEN Append(args.bands, "alpha") ELSE args.bands

DtypeDiffers ==
  \E j, k \in DOMAIN self :
    common_data_type_of_bands(self[j], CheckedBands)
      # common_data_type_of_bands(self[k], CheckedBands)

\* C3 as stated: a call on an empty collection, with an unsupported or
\* out-of-range bands_axis, or with bands whose dtype differs between the
\* scenes, raises before any fetch task is submitted and before any request.
C3_FailsBeforeAnySubmit ==
  (\/ Len(self) = 0
   \/ args.op = "stack" /\ args.bands_axis \in {-4, 0, 4}
   \/ args.op = "mosaic" /\ args.bands_axis \in {-4, 3, 4}
   \/ DtypeDiffers)
  => /\ ~(args.futures /\ \E i \in DOMAIN tasks : tasks[i].state # "new")
     /\ threads = 0
     /\ NoNetworkCall

\* C3 amended: a call on an empty collection, a stack with bands_axis 0 or
\* -4, a mosaic with bands_axis outside -2..2, or a call whose checked bands
\* (with the implicit alpha) differ in dtype between the scenes, raises a
\* local error before any fetch task is submitted and before any request; a
\* stack with another out-of-range bands_axis is not among them.
C3_PreflightFailsBeforeSubmit ==
  (\/ Len(self) = 0
   \/ args.op = "stack" /\ args.bands_axis \in {-4, 0}
   \/ args.op = "mosaic" /\ ~(-3 < args.bands_axis /\ args.bands_axis < 3)
   \/ DtypeDiffers)
  => /\ pc \in {"idle", "raised"}
     /\ NothingSubmitted
     /\ NoNetworkCall
     /\ ~result.some
     /\ pc = "raised" =>
          error.kind \in {"EmptyCollection", "UnsupportedAxis", "InvalidAxis",
                          "AlphaOrder", "DataType"}

\* C3 witness: a stack of two scenes whose requested band has one dtype but
\* whose implicitly added alpha band has not, rejected with nothing submitted.
C3_Witness ==
  /\ pc = "raised"
  /\ args.op = "stack"
  /\ error.kind = "DataType"
  /\ ~AlphaRequested
  /\ common_data_type_of_bands(self[1], args.bands)
       = common_data_type_of_bands(self[2], args.bands)
  /\ NothingSubmitted
  /\ NoNetworkCall

\* C4 as stated: with alpha in the band list at a position other than last,
\* stack and mosaic issue no network call and return no array, whatever
\* mask_nodata and mask_alpha are.
C4_AlphaNotLastNeverFetches ==
  (AlphaRequested /\ Index(args.bands, "alpha") # Len(args.bands))
  => NoNetworkCall /\ ~result.some

\* C5 as stated: stack with bands_axis=0 raises the unsupported-axis error
\* for every collection.
C5_AxisZeroAlwaysUnsupported ==
  (args.op = "stack" /\ args.bands_axis = 0 /\ pc # "idle")
  => pc = "raised" /\ error.kind = "UnsupportedAxis"

\* C5 amended: stack with bands_axis=0 on a non-empty collection raises the
\* unsupported-axis error for every value of the other arguments, and on an
\* empty collection the empty-collection error; either way it dispatches no
\* fetch.
C5_AxisZeroUnsupportedUnlessEmpty ==
  (args.op = "stack" /\ args.bands_axis = 0)
  => /\ NothingSubmitted
     /\ NoNetworkCall
     /\ ~result.some
     /\ pc # "idle" =>
          /\ pc = "raised"
          /\ error.kind = IF Len(self) = 0 THEN "EmptyCollection" ELSE "UnsupportedAxis"

\* C5 witness: stack with bands_axis=0 on two scenes has raised the
\* unsupported-axis error.
C5_Witness ==
  /\ pc = "raised"
  /\ args.op = "stack"
  /\ args.bands_axis = 0
  /\ Len(self) = 2
  /\ error.kind = "UnsupportedAxis"

\* C7: a mosaic call that passes its checks issues exactly one raster ndarray
\* request, whose inputs are the ids of all scenes in collection order (the
\* last scene last), also when that request fails; a mosaic that fails its
\* checks issues none.
C7_OneRequestWithAllIds ==
  args.op = "mosaic" =>
    /\ (pc \in {"mosaic", "returned"} \/ (pc = "raised" /\ error.kind \in Outcomes)) =>
         /\ Len(tasks) = 1
         /\ tasks[1].calls = 1
         /\ tasks[1].request.v.inputs = self
         /\ Last(tasks[1].request.v.inputs) = self[Len(self)]
    /\ (pc = "idle" \/ (pc = "raised" /\ error.kind \notin Outcomes)) => tasks = <<>>

\* C7 witness: the one request of a mosaic of three scenes has failed, and
\* mosaic has raised without a second request.
C7_Witness ==
  /\ args.op = "mosaic"
  /\ pc = "raised"
  /\ error.kind = "NotFoundError"
  /\ Len(self) = 3
  /\ tasks[1].calls = 1
  /\ tasks[1].request.v.inputs = self

\* The non-null nodata values any scene of the collection declares for a band.
DeclaredNodata(bandname) ==
  {v \in 0..2 : \E k \in DOMAIN self : Catalog[self[k]].bands[bandname].nodata = Some(v)}

ByNodata(b, p) ==
  args.mask_nodata /\ result.v.data[b][p] \in DeclaredNodata(args.bands[b])

ByAlpha(p) == args.mask_alpha /\ ServiceLayer(self, "alpha")[p] = 0

IsMaskedAt(b, p) == result.v.masked /\ result.v.mask[b][p]

\* C8: in the array mosaic returns, a pixel of output band b is masked iff
\* mask_nodata is set and its value is one of the non-null nodata values
\* declared for band b by any scene, or mask_alpha is set and the composited
\* alpha band is 0 at that pixel; the alpha mask covers every output band.
C8_MaskedIffNodataOrAlpha ==
  (args.op = "mosaic" /\ pc = "returned") =>
    \A b \in DOMAIN result.v.data : \A p \in 1..NPix :
      IsMaskedAt(b, p) <=> (ByNodata(b, p) \/ ByAlpha(p))

\* C8 witness: a mosaic of two scenes with both masks on came back with one
\* pixel masked, alpha being non-zero there, by a nodata value only the first
\* scene declares, another pixel masked in both bands where alpha is 0, and a
\* third left unmasked.
C8_Witness ==
  /\ args.op = "mosaic"
  /\ pc = "returned"
  /\ args.mask_nodata /\ args.mask_alpha
  /\ Len(self) = 2
  /\ Len(result.v.data) = 2
  /\ \E b \in DOMAIN result.v.data, p \in 1..NPix :
       /\ IsMaskedAt(b, p) /\ ~ByAlpha(p)
       /\ Catalog[self[1]].bands[args.bands[b]].nodata = Some(result.v.data[b][p])
       /\ Catalog[self[2]].bands[args.bands[b]].nodata # Some(result.v.data[b][p])
  /\ \E p \in 1..NPix : ByAlpha(p) /\ \A b \in DOMAIN result.v.data : IsMaskedAt(b, p)
  /\ \E b \in DOMAIN result.v.data, p \in 1..NPix : ~IsMaskedAt(b, p)

\* The band list sent to the service for the requested bands: with alpha
\* appended when mask_alpha needs it and the caller did not ask for it.
ExpectedRequestBands ==
  IF args.mask_alpha /\ ~AlphaRequested THEN Append(args.bands, "alpha") ELSE args.bands

\* C9: for every combination of mask_nodata and mask_alpha, the bands of the
\* array stack and mosaic return are exactly the requested bands, in the
\* requested order; an alpha band added for the mask is requested from the
\* service and is not in the output, an explicitly requested one is kept.
C9_BandsAsRequested ==
  /\ \A i \in DOMAIN tasks :
       tasks[i].request.some => tasks[i].request.v.bands = ExpectedRequestBands
  /\ (args.op = "mosaic" /\ pc = "returned") =>
       /\ result.v.names = args.bands
       /\ Len(result.v.data) = Len(args.bands)
  /\ (args.op = "stack" /\ pc = "returned") =>
       \A i \in DOMAIN result.v.data :
         /\ result.v.data[i].v.names = args.bands
         /\ Len(result.v.data[i].v.data) = Len(args.bands)

\* C9 witness: a stack of a mosaicked group and a scene, masked by alpha the
\* caller did not request, came back with the two requested bands only.
C9_Witness ==
  /\ args.op = "stack"
  /\ pc = "returned"
  /\ args.flatten
  /\ args.mask_alpha
  /\ args.bands = <<"green", "red">>
  /\ Len(self) = 2
  /\ Len(result.v.data) = 1
  /\ tasks[1].request.v.bands = <<"green", "red", "alpha">>
  /\ result.v.data[1].v.names = <<"green", "red">>

\* C10: mosaic returns a plain array exactly when mask_nodata and mask_alpha
\* are both False and a masked array otherwise, and in both cases the values
\* are the service's values of the requested bands, pixel for pixel: the
\* plain array equals the data under the mask of the masked variant.
C10_PlainIffUnmaskedSameValues ==
  (args.op = "mosaic" /\ pc = "returned") =>
    /\ result.v.masked = (args.mask_nodata \/ args.mask_alpha)
    /\ ~result.v.masked => result.v.mask = <<>>
    /\ result.v.data = ExpectedLayers(self)
    /\ result.v.axes = MoveAxis(<<"band", "y", "x">>, args.bands_axis)

\* C10 witness: a mosaic with both masks on came back masked, holding under
\* the mask of a pixel the value the service sent for it.
C10_Witness ==
  /\ args.op = "mosaic"
  /\ pc = "returned"
  /\ args.mask_nodata /\ args.mask_alpha
  /\ result.v.masked
  /\ \E b \in DOMAIN result.v.data, p \in 1..NPix :
       /\ result.v.mask[b][p]
       /\ result.v.data[b][p] = ServiceLayer(self, args.bands[b])[p]
       /\ result.v.data[b][p] # 0

\* The request mosaic makes for the collection: all ids, the bands with the
\* alpha band added for the mask, and the dtype common to the scenes.
ExpectedRequest ==
  [inputs    |-> self,
   order     |-> "gdal",
   bands     |-> ExpectedRequestBands,
   data_type |-> common_data_type_of_bands(self[1], ExpectedRequestBands)]

\* C11: when the raster call of mosaic fails with not-found or bad-request,
\* mosaic raises a failure of the same kind that carries the scene ids (for
\* not-found) or the whole request (for bad-request); it returns no array
\* and has made that one request only.
C11_FailureCarriesRequest ==
  (/\ args.op = "mosaic"
   /\ tasks # <<>>
   /\ tasks[1].outcome \in {"NotFoundError", "BadRequestError"})
  => /\ pc = "raised"
     /\ ~result.some
     /\ Len(tasks) = 1
     /\ tasks[1].calls = 1
     /\ error.kind = tasks[1].outcome
     /\ error.attached.some
     /\ tasks[1].outcome = "NotFoundError" => error.attached.v = [inputs |-> self]
     /\ tasks[1].outcome = "BadRequestError" => error.attached.v = ExpectedRequest

\* C11 witness: the service rejected the request of a mosaic of two scenes
\* masked by an alpha band the caller did not ask for, and the failure
\* raised echoes the request with alpha in its band list.
C11_Witness ==
  /\ args.op = "mosaic"
  /\ pc = "raised"
  /\ Len(self) = 2
  /\ args.mask_alpha
  /\ ~AlphaRequested
  /\ Len(tasks) = 1
  /\ tasks[1].outcome = "BadRequestError"
  /\ error.kind = "BadRequestError"
  /\ error.attached.v.inputs = self
  /\ error.attached.v.bands = Append(args.bands, "alpha")

\* C12 as stated: Raster.ndarray signals a not-found failure for a 404
\* response and a bad-request failure for a 400 response, each of a kind
\* of its own, different from the failure for any other non-200 response,
\* after one request.
C12_DistinctNotFoundAndBadRequest ==
  (args.op = "ndarray" /\ pc = "raised")
  => /\ tasks[1].calls = 1
     /\ tasks[1].outcome = 404 => error.kind = "NotFoundError"
     /\ tasks[1].outcome = 400 => error.kind = "BadRequestError"
     /\ tasks[1].outcome = 500 => error.kind \notin {"NotFoundError", "BadRequestError"}

\* C13 as stated: on a 200 response Raster.ndarray returns the pair
\* (array, raster_info) that mosaic unpacks.
C13_ReturnsArrayAndInfo ==
  (args.op = "ndarray" /\ pc = "returned" /\ args.order # "other")
  => result.v.type = "pair"

\* The supported positions of the bands dimension in the 4D result of stack.
SupportedStackAxes == {1, 2, 3, -1, -2, -3}

\* Position bands_axis of a 4D array, counted from 1.
StackAxisPosition(bands_axis) == IF bands_axis > 0 THEN bands_axis + 1 ELSE bands_axis + 5

\* C14 as stated, for the items that flatten makes mosaicked groups: with a
\* bands_axis among 1, 2, 3, -1, -2, -3 no group's mosaic rejects the axis,
\* and the array stack returns has the item dimension first and the bands
\* dimension at position bands_axis.
C14_BandsAtRequestedAxis ==
  (args.op = "stack" /\ args.bands_axis \in SupportedStackAxes)
  => /\ \A i \in DOMAIN tasks :
          IsCollection(scenes[i]) => tasks[i].error.kind # "InvalidAxis"
     /\ pc = "returned" =>
          /\ result.v.axes[1] = "scene"
          /\ Len(result.v.axes) = 4
          /\ result.v.axes[StackAxisPosition(args.bands_axis)] = "band"

\* min(max_workers, n) for the call, the default standing for max_workers=None.
WorkerLimit ==
  LET w == IF args.max_workers.some THEN args.max_workers.v ELSE DefaultWorkers
      n == Len(StackItems(self, args.flatten))
  IN  IF w < n THEN w ELSE n

\* C15: a concurrent stack over n items dispatches one fetch task per item,
\* each fetching once, and the worker threads, and with them the fetches in
\* flight, never number more than min(max_workers, n), also when max_workers
\* is larger than n or left at its default.
C15_WorkersWithinLimit ==
  (args.op = "stack" /\ args.futures) =>
    /\ threads <= WorkerLimit
    /\ Cardinality(Running) <= threads
    /\ tasks # <<>> => Len(tasks) = Len(StackItems(self, args.flatten))
    /\ \A i \in DOMAIN tasks : tasks[i].calls <= 1
    /\ pc \in {"collect", "shutdown", "returned"} =>
         \A i \in DOMAIN tasks : tasks[i].state # "new"
    /\ pc = "returned" => \A i \in DOMAIN tasks : tasks[i].calls = 1

\* C15 witness: with max_workers left at its default, the three fetches of a
\* stack of three items are in flight at once on three worker threads.
C15_Witness ==
  /\ args.op = "stack"
  /\ args.futures
  /\ ~args.max_workers.some
  /\ Len(tasks) = 3
  /\ threads = 3
  /\ Cardinality(Running) = 3

\* The mask of an item's result that masks nothing.
AllFalse(arr) == [b \in DOMAIN arr.data |-> [p \in DOMAIN arr.data[b] |-> FALSE]]

\* The mask layer the stack owes item i: its own mask, or all-false.
OwedMask(i) ==
  LET arr == tasks[i].result.v
  IN  IF arr.masked THEN arr.mask ELSE AllFalse(arr)

====
